---- MODULE Spec2Model ----
(***************************************************************************)
(* Model of qualitycheck.py: a batch runner that executes the TEQC quality *)
(* check on RINEX files in a thread pool (parallel_teqc), turns each exit  *)
(* status and output into a report or None (quality_check) and parses the  *)
(* fixed-column report into a tuple of quality marks (parse_report).       *)
(*                                                                         *)
(* Text is modelled character by character: a Python str is a sequence of  *)
(* one-character strings, so that column slices, substring tests, strip,   *)
(* split and the numeric and date conversions are computed, not assumed.   *)
(* A Python float is the exact rational it denotes, as a reduced fraction  *)
(* [num, den]; the decimal literals of a report are short enough that      *)
(* rounding plays no part in what is checked here.                         *)
(***************************************************************************)
EXTENDS Integers, Sequences, FiniteSets, TLC

(***************************************************************************)
(* Python str and list primitives used by the program.                     *)
(***************************************************************************)
Min(a, b) == IF a <= b THEN a ELSE b

Max(a, b) == IF a >= b THEN a ELSE b

\* characters removed by str.strip()
Whitespace == {" ", "\t", "\n", "\r"}

\* a slice whose start is counted from 1
SliceFromOne(s, a, b) == SubSeq(s, Max(a, 1), Min(b, Len(s)))

\* s[a:b]: a slice never fails, it is cut at the end of s
Slice(s, a, b) == SubSeq(s, a + 1, Min(b, Len(s)))

\* s[a:]
SliceFrom(s, a) == SubSeq(s, a + 1, Len(s))

RECURSIVE lstrip(_)
lstrip(s) == IF s # <<>> /\ Head(s) \in Whitespace THEN lstrip(Tail(s)) ELSE s

RECURSIVE rstrip(_)
rstrip(s) ==
    IF s # <<>> /\ s[Len(s)] \in Whitespace
    THEN rstrip(SubSeq(s, 1, Len(s) - 1))
    ELSE s

\* s.strip()
strip(s) == rstrip(lstrip(s))

\* sub in s
Contains(sub, s) ==
    \E k \in 0..(Len(s) - Len(sub)) : SubSeq(s, k + 1, k + Len(sub)) = sub

\* a split that gives no piece for the empty text
RECURSIVE splitNonEmpty(_, _)
splitNonEmpty(s, sep) ==
    IF s = <<>> THEN <<>>
    ELSE IF \E k \in 1..Len(s) : s[k] = sep
    THEN LET k == CHOOSE i \in 1..Len(s) :
                     s[i] = sep /\ \A j \in 1..(i - 1) : s[j] # sep
         IN  <<SubSeq(s, 1, k - 1)>>
               \o splitNonEmpty(SubSeq(s, k + 1, Len(s)), sep)
    ELSE <<s>>

\* s.split(sep) for a one-character separator: never empty, [s] without sep
RECURSIVE split(_, _)
split(s, sep) ==
    IF \E k \in 1..Len(s) : s[k] = sep
    THEN LET k == CHOOSE i \in 1..Len(s) :
                     s[i] = sep /\ \A j \in 1..(i - 1) : s[j] # sep
         IN  <<SubSeq(s, 1, k - 1)>> \o split(SubSeq(s, k + 1, Len(s)), sep)
    ELSE <<s>>

(***************************************************************************)
(* float(s) for decimal literals: optional surrounding whitespace, an      *)
(* optional sign, digits with at most one point and at least one digit.    *)
(* Anything else raises ValueError.  (Exponents, inf, nan and underscores  *)
(* are further literals of Python; no text of the reports below has them   *)
(* in a numeric column.)                                                   *)
(***************************************************************************)
DigitChars == <<"0", "1", "2", "3", "4", "5", "6", "7", "8", "9">>

IsDigit(c) == \E d \in 1..10 : DigitChars[d] = c

DigitVal(c) == (CHOOSE d \in 1..10 : DigitChars[d] = c) - 1

AllDigits(s) == \A k \in 1..Len(s) : IsDigit(s[k])

RECURSIVE DigitsVal(_)
DigitsVal(s) ==
    IF s = <<>> THEN 0
    ELSE 10 * DigitsVal(SubSeq(s, 1, Len(s) - 1)) + DigitVal(s[Len(s)])

RECURSIVE Pow10(_)
Pow10(n) == IF n = 0 THEN 1 ELSE 10 * Pow10(n - 1)

RECURSIVE GCD(_, _)
GCD(a, b) == IF b = 0 THEN a ELSE GCD(b, a % b)

Abs(n) == IF n < 0 THEN -n ELSE n

\* the rational n/d (d > 0) in lowest terms
Frac(n, d) ==
    LET g == GCD(Abs(n), d)
    IN  [exc |-> "none", num |-> n \div g, den |-> d \div g]

Raised(name) == [exc |-> name]

float(s) ==
    LET t      == strip(s)
        signed == t # <<>> /\ t[1] \in {"+", "-"}
        body   == IF signed THEN Tail(t) ELSE t
        parts  == split(body, ".")
        ip     == parts[1]
        fp     == IF Len(parts) >= 2 THEN parts[2] ELSE <<>>
        ok     == /\ Len(parts) <= 2
                  /\ AllDigits(ip) /\ AllDigits(fp)
                  /\ Len(ip) + Len(fp) >= 1
        mag    == DigitsVal(ip \o fp)
    IN  IF ~ok THEN Raised("ValueError")
        ELSE Frac(IF signed /\ t[1] = "-" THEN -mag ELSE mag, Pow10(Len(fp)))

\* a division that gives infinity where Python raises
TrueDivInf(n, b) ==
    IF b.num = 0 THEN [exc |-> "none", num |-> 1, den |-> 0]
    ELSE IF b.num < 0 THEN Frac(-(n * b.den), -b.num)
    ELSE Frac(n * b.den, b.num)

\* a / b for the float a = n/1 and the float b
TrueDiv(n, b) ==
    IF b.num = 0 THEN Raised("ZeroDivisionError")
    ELSE IF b.num < 0 THEN Frac(-(n * b.den), -b.num)
    ELSE Frac(n * b.den, b.num)

(***************************************************************************)
(* datetime.strptime(s, '%Y %b %d') and strftime('%Y-%m-%d').              *)
(***************************************************************************)
UpperChars ==
    <<"A", "B", "C", "D", "E", "F", "G", "H", "I", "J", "K", "L", "M",
      "N", "O", "P", "Q", "R", "S", "T", "U", "V", "W", "X", "Y", "Z">>

LowerChars ==
    <<"a", "b", "c", "d", "e", "f", "g", "h", "i", "j", "k", "l", "m",
      "n", "o", "p", "q", "r", "s", "t", "u", "v", "w", "x", "y", "z">>

lower(c) ==
    IF \E k \in 1..26 : UpperChars[k] = c
    THEN LowerChars[CHOOSE k \in 1..26 : UpperChars[k] = c]
    ELSE c

\* %b: the abbreviated month names, matched without regard to case
MonthNames ==
    << <<"j", "a", "n">>, <<"f", "e", "b">>, <<"m", "a", "r">>,
       <<"a", "p", "r">>, <<"m", "a", "y">>, <<"j", "u", "n">>,
       <<"j", "u", "l">>, <<"a", "u", "g">>, <<"s", "e", "p">>,
       <<"o", "c", "t">>, <<"n", "o", "v">>, <<"d", "e", "c">> >>

IsLeap(y) == (y % 4 = 0 /\ y % 100 # 0) \/ y % 400 = 0

DaysInMonth(y, m) ==
    IF m = 2 THEN (IF IsLeap(y) THEN 29 ELSE 28)
    ELSE IF m \in {4, 6, 9, 11} THEN 30 ELSE 31

\* %d: one or two digits, 1..31, with nothing left over after it
DayField(r) ==
    IF Len(r) = 2 /\ AllDigits(r) /\ DigitsVal(r) \in 1..31 THEN DigitsVal(r)
    ELSE IF Len(r) = 1 /\ AllDigits(r) /\ DigitsVal(r) \in 1..9 THEN DigitsVal(r)
    ELSE 0

\* four digits, white space, a month name, white space, the day
strptime(s) ==
    LET afterY == SliceFrom(s, 4)
        atMon  == lstrip(afterY)
        mon    == [k \in 1..Min(3, Len(atMon)) |-> lower(atMon[k])]
        afterM == SliceFrom(atMon, 3)
        atDay  == lstrip(afterM)
        ok     == /\ Len(s) >= 4 /\ AllDigits(Slice(s, 0, 4))
                  /\ Len(atMon) < Len(afterY)
                  /\ \E m \in 1..12 : MonthNames[m] = mon
                  /\ Len(atDay) < Len(afterM)
                  /\ DayField(atDay) > 0
        y      == DigitsVal(Slice(s, 0, 4))
        m      == CHOOSE i \in 1..12 : MonthNames[i] = mon
        d      == DayField(atDay)
    IN  IF ~ok THEN Raised("ValueError")
        ELSE IF y < 1 \/ d > DaysInMonth(y, m) THEN Raised("ValueError")
        ELSE [exc |-> "none", year |-> y, month |-> m, day |-> d]

\* the decimal digits of n >= 0
RECURSIVE str(_)
str(n) ==
    IF n < 10 THEN <<DigitChars[n + 1]>>
    ELSE str(n \div 10) \o <<DigitChars[(n % 10) + 1]>>

\* %m and %d: two digits, zero padded
Pad2(n) == IF n < 10 THEN <<"0">> \o str(n) ELSE str(n)

\* date.strftime('%Y-%m-%d'); %Y is the year's digits as the C library
\* prints them
strftime(date) ==
    str(date.year) \o <<"-">> \o Pad2(date.month) \o <<"-">> \o Pad2(date.day)

(***************************************************************************)
(* QUALITYINFO: the locators of the five fields and their column ranges.   *)
(***************************************************************************)
\* 'Time of start of window :'
flag_start ==
    <<"T", "i", "m", "e", " ", "o", "f", " ", "s", "t", "a", "r", "t", " ", "o", "f",
    " ", "w", "i", "n", "d", "o", "w", " ", ":">>

\* 'Time of  end  of window :'
flag_end ==
    <<"T", "i", "m", "e", " ", "o", "f", " ", " ", "e", "n", "d", " ", " ", "o", "f",
    " ", "w", "i", "n", "d", "o", "w", " ", ":">>

\* 'Time line window length :'
flag_length ==
    <<"T", "i", "m", "e", " ", "l", "i", "n", "e", " ", "w", "i", "n", "d", "o", "w",
    " ", "l", "e", "n", "g", "t", "h", " ", ":">>

\* 'Mean S1                 :'
flag_SN1 ==
    <<"M", "e", "a", "n", " ", "S", "1", " ", " ", " ", " ", " ", " ", " ", " ", " ",
    " ", " ", " ", " ", " ", " ", " ", " ", ":">>

\* 'Mean S2                 :'
flag_SN2 ==
    <<"M", "e", "a", "n", " ", "S", "2", " ", " ", " ", " ", " ", " ", " ", " ", " ",
    " ", " ", " ", " ", " ", " ", " ", " ", ":">>

QUALITYINFO ==
    << [name |-> "start",  flag |-> flag_start,  pos |-> <<25, 51>>],
       [name |-> "end",    flag |-> flag_end,    pos |-> <<37, 51>>],
       [name |-> "length", flag |-> flag_length, pos |-> <<26, 42>>],
       [name |-> "SN1",    flag |-> flag_SN1,    pos |-> <<26, 31>>],
       [name |-> "SN2",    flag |-> flag_SN2,    pos |-> <<26, 31>>] >>

FieldNames == {QUALITYINFO[j].name : j \in 1..Len(QUALITYINFO)}

(***************************************************************************)
(* parse_report.                                                           *)
(***************************************************************************)
\* a search that starts at the top of the report whatever last_no is
FindFromTop(report, flag, last_no) ==
    IF \E n \in 0..(Len(report) - 1) : Contains(flag, report[n + 1])
    THEN CHOOSE n \in 0..(Len(report) - 1) :
             /\ Contains(flag, report[n + 1])
             /\ \A k \in 0..(n - 1) : ~Contains(flag, report[k + 1])
    ELSE -1

\* a search that starts on the line after last_no
FindFromNext(report, flag, last_no) ==
    IF \E n \in (last_no + 1)..(Len(report) - 1) : Contains(flag, report[n + 1])
    THEN CHOOSE n \in (last_no + 1)..(Len(report) - 1) :
             /\ Contains(flag, report[n + 1])
             /\ \A k \in (last_no + 1)..(n - 1) : ~Contains(flag, report[k + 1])
    ELSE -1

\* the inner for loop: the first line number >= last_no (0-based) whose
\* line contains flag, or -1 when the loop ends without a break
FindFrom(report, flag, last_no) ==
    IF \E n \in last_no..(Len(report) - 1) : Contains(flag, report[n + 1])
    THEN CHOOSE n \in last_no..(Len(report) - 1) :
             /\ Contains(flag, report[n + 1])
             /\ \A k \in last_no..(n - 1) : ~Contains(flag, report[k + 1])
    ELSE -1

\* one pass of the outer loop for QUALITYINFO[j], then the passes after it;
\* st is [marks, last_no, at], at[name] the line number that gave the mark
RECURSIVE ScanItems(_, _, _)
ScanItems(report, j, st) ==
    IF j > Len(QUALITYINFO) THEN st
    ELSE LET item   == QUALITYINFO[j]
             number == FindFrom(report, item.flag, st.last_no)
             line   == report[number + 1]
         IN  IF number = -1 THEN ScanItems(report, j + 1, st)
             ELSE ScanItems(report, j + 1,
                    [marks   |-> (item.name :>
                                    strip(Slice(line, item.pos[1], item.pos[2])))
                                  @@ st.marks,
                     last_no |-> number,
                     at      |-> (item.name :> number) @@ st.at])

Scan(report) == ScanItems(report, 1, [marks |-> <<>>, last_no |-> 0, at |-> <<>>])

\* a marks dictionary that starts with a value for every field
MarksWithDefaults(report) ==
    Scan(report).marks @@ [name \in FieldNames |-> <<"0">>]

\* the marks dictionary after the scan
Marks(report) == Scan(report).marks

HasMark(marks, name) == name \in DOMAIN marks

\* the statements after the scan, in the order they are evaluated; the
\* first one that raises decides the outcome
parse_report(report) ==
    LET marks == Marks(report)
    IN
    IF ~HasMark(marks, "SN1") THEN Raised("KeyError")
    ELSE LET sn1 == float(marks["SN1"]) IN
    IF sn1.exc # "none" THEN sn1
    ELSE IF ~HasMark(marks, "SN2") THEN Raised("KeyError")
    ELSE LET sn2 == float(marks["SN2"]) IN
    IF sn2.exc # "none" THEN sn2
    ELSE IF ~HasMark(marks, "start") THEN Raised("KeyError")
    ELSE LET date == strptime(Slice(marks["start"], 0, 11)) IN
    IF date.exc # "none" THEN date
    ELSE LET start == strip(SliceFrom(marks["start"], 11)) IN
    IF ~HasMark(marks, "end") THEN Raised("KeyError")
    ELSE LET end == marks["end"] IN
    IF ~HasMark(marks, "length") THEN Raised("KeyError")
    ELSE LET length == split(marks["length"], ",")[1] IN
    IF report = <<>> THEN Raised("IndexError")
    ELSE LET last_line == report[Len(report)]
             mp1 == float(Slice(last_line, 63, 67))
         IN
    IF mp1.exc # "none" THEN mp1
    ELSE LET mp2 == float(Slice(last_line, 69, 73)) IN
    IF mp2.exc # "none" THEN mp2
    ELSE LET olps == float(SliceFrom(last_line, 75)) IN
    IF olps.exc # "none" THEN olps
    ELSE LET csr == TrueDiv(1000, olps) IN
    IF csr.exc # "none" THEN csr
    ELSE [exc |-> "none", date |-> strftime(date), start |-> start,
          end |-> end, length |-> length, sn1 |-> sn1, sn2 |-> sn2,
          mp1 |-> mp1, mp2 |-> mp2, csr |-> csr]

\* ' 2017 Aug 10  00:00:00.000'
tail_start ==
    <<" ", "2", "0", "1", "7", " ", "A", "u", "g", " ", "1", "0", " ", " ", "0", "0",
    ":", "0", "0", ":", "0", "0", ".", "0", "0", "0">>

\* ' 2017 Aug 10  23:59:30.000'
tail_end ==
    <<" ", "2", "0", "1", "7", " ", "A", "u", "g", " ", "1", "0", " ", " ", "2", "3",
    ":", "5", "9", ":", "3", "0", ".", "0", "0", "0">>

\* ' 23.99 hour(s), ticked every ...'
tail_length ==
    <<" ", "2", "3", ".", "9", "9", " ", "h", "o", "u", "r", "(", "s", ")", ",", " ",
    "t", "i", "c", "k", "e", "d", " ", "e", "v", "e", "r", "y", " ", ".", ".", ".">>

\* ' 46.95 (sd=5.80 n=49483)'
tail_SN1 ==
    <<" ", "4", "6", ".", "9", "5", " ", "(", "s", "d", "=", "5", ".", "8", "0", " ",
    "n", "=", "4", "9", "4", "8", "3", ")">>

\* ' 42.21 (sd=8.18 n=48411)'
tail_SN2 ==
    <<" ", "4", "2", ".", "2", "1", " ", "(", "s", "d", "=", "8", ".", "1", "8", " ",
    "n", "=", "4", "8", "4", "1", "1", ")">>

\* '      first epoch    last epoch    hrs   dt  #expt  #have   %   mp1   mp2 o/slps'
line_header ==
    <<" ", " ", " ", " ", " ", " ", "f", "i", "r", "s", "t", " ", "e", "p", "o", "c",
    "h", " ", " ", " ", " ", "l", "a", "s", "t", " ", "e", "p", "o", "c", "h", " ",
    " ", " ", " ", "h", "r", "s", " ", " ", " ", "d", "t", " ", " ", "#", "e", "x",
    "p", "t", " ", " ", "#", "h", "a", "v", "e", " ", " ", " ", "%", " ", " ", " ",
    "m", "p", "1", " ", " ", " ", "m", "p", "2", " ", "o", "/", "s", "l", "p", "s">>

\* 'SUM 17  8 10 00:00 17  8 10 23:59 24.00  30     -   47669  -   0.43  0.42'
sum_prefix ==
    <<"S", "U", "M", " ", "1", "7", " ", " ", "8", " ", "1", "0", " ", "0", "0", ":",
    "0", "0", " ", "1", "7", " ", " ", "8", " ", "1", "0", " ", "2", "3", ":", "5",
    "9", " ", "2", "4", ".", "0", "0", " ", " ", "3", "0", " ", " ", " ", " ", " ",
    "-", " ", " ", " ", "4", "7", "6", "6", "9", " ", " ", "-", " ", " ", " ", "0",
    ".", "4", "3", " ", " ", "0", ".", "4", "2">>

\* '   3972'  columns [73, 80) of the doctest's summary line
sum_slips ==
    <<" ", " ", " ", "3", "9", "7", "2">>

\* '      0'  a summary line's columns [73, 80) when no slip was counted
sum_noslips ==
    <<" ", " ", " ", " ", " ", " ", "0">>

\* '/bin/sh: 1: teqc: not found'  the shell's output when teqc is not installed
out_notfound ==
    <<"/", "b", "i", "n", "/", "s", "h", ":", " ", "1", ":", " ", "t", "e", "q", "c",
    ":", " ", "n", "o", "t", " ", "f", "o", "u", "n", "d">>

\* 'teqc: failure to read file'  an output of a teqc run that exits with status 1
out_failure ==
    <<"t", "e", "q", "c", ":", " ", "f", "a", "i", "l", "u", "r", "e", " ", "t", "o",
    " ", "r", "e", "a", "d", " ", "f", "i", "l", "e">>

(***************************************************************************)
(* The report of parse_report's doctest, line by line, and the other lines *)
(* the inputs below are made of.                                           *)
(***************************************************************************)
line_start == flag_start \o tail_start

line_end == flag_end \o tail_end

line_length == flag_length \o tail_length

line_SN1 == flag_SN1 \o tail_SN1

line_SN2 == flag_SN2 \o tail_SN2

\* 'Mean S1                 : 46.95 Mean S2                 : 42.21 (sd=8.18 n=48411)'
\* a line that holds two flags
line_SN1_SN2 == flag_SN1 \o SubSeq(tail_SN1, 1, 7) \o flag_SN2 \o tail_SN2

\* '2016 Feb 29'
date_leap == <<"2", "0", "1", "6", " ", "F", "e", "b", " ", "2", "9">>

\* '0999 Jan 01'
date_y999 == <<"0", "9", "9", "9", " ", "J", "a", "n", " ", "0", "1">>

\* '2017 Feb 30'
date_feb30 == <<"2", "0", "1", "7", " ", "F", "e", "b", " ", "3", "0">>

\* '2017 Dec 31'
date_dec31 == <<"2", "0", "1", "7", " ", "D", "e", "c", " ", "3", "1">>

\* 'Time of start of window : <date>  00:00:00.000'
StartLine(date) == flag_start \o <<" ">> \o date \o SubSeq(tail_start, 13, Len(tail_start))

StartLines == {StartLine(d) : d \in {date_leap, date_y999, date_feb30, date_dec31}}

line_sum == sum_prefix \o sum_slips

line_sum_noslips == sum_prefix \o sum_noslips

DoctestReport ==
    <<line_start, line_end, line_length, line_SN1, line_SN2,
      line_header, line_sum>>

\* the lines an edit may put into a report
LineCatalog ==
    {line_start, line_end, line_length, line_SN1, line_SN2,
     line_header, line_sum, line_sum_noslips, line_SN1_SN2, <<>>}
    \cup StartLines

\* the lengths an edit may cut a line to: before, inside and after the
\* column ranges of QUALITYINFO and of the summary line
CutLengths == {0, 28, 40, 48, 65, 71, 74, 76, 78}

\* '\n'.join(lines)
RECURSIVE join(_)
join(lines) ==
    IF lines = <<>> THEN <<>>
    ELSE IF Len(lines) = 1 THEN lines[1]
    ELSE lines[1] \o <<"\n">> \o join(Tail(lines))

(***************************************************************************)
(* quality_check.  What teqc does with a file is part of the input: each   *)
(* source file carries the exit status and the output that                 *)
(* subprocess.getstatusoutput reports for it.                              *)
(***************************************************************************)
\* the runs of teqc a source file may stand for: a good report, a check
\* that fails, a success without output, a teqc killed by signal 9, and a
\* shell that finds no teqc
RunOf(tag) ==
    CASE tag = "good"     -> [status |-> 0,   output |-> join(DoctestReport)]
      [] tag = "failed"   -> [status |-> 1,   output |-> out_failure]
      [] tag = "silent"   -> [status |-> 0,   output |-> <<>>]
      [] tag = "killed"   -> [status |-> -9,  output |-> <<>>]
      [] tag = "notfound" -> [status |-> 127, output |-> out_notfound]

RunTags == {"good", "failed", "silent", "killed", "notfound"}

\* subprocess.getstatusoutput(' '.join(args))
getstatusoutput(src_file) == RunOf(src_file.teqc)

None == [type |-> "None"]

List(lines) == [type |-> "list", items |-> lines]

quality_check(src_file) ==
    LET run == getstatusoutput(src_file)
    IN  IF run.status > 0 THEN None ELSE List(split(run.output, "\n"))

\* `if res:` None and the empty list are false
Truthy(res) == res.type = "list" /\ res.items # <<>>

\* os.path.basename(src_file)
basename(src_file) == src_file.base

(***************************************************************************)
(* Bounds of the model.                                                    *)
(***************************************************************************)
\* the longest batch whose files are drawn freely
MaxFiles == 2

\* the length of the batches that fill the thread pool
PoolFiles == 7

\* the number of edits made to a report before it is parsed
MaxEdits == 1

\* os.cpu_count() of the machine
cpu_count == 4

MAX_THREADING == Max(6, cpu_count)

\* the pool size of a ThreadPoolExecutor() made without max_workers
max_workers_default == Min(32, cpu_count + 4)

\* ThreadPoolExecutor(max_workers=MAX_THREADING)
max_workers == MAX_THREADING

(***************************************************************************)
(* State.  The batch: main calls parallel_teqc(src_files), whose control   *)
(* thread submits, drains and returns, while the pool's workers run        *)
(* quality_check.  The parser: a report is edited and then parsed.         *)
(***************************************************************************)
VARIABLES
    src_files,    \* the batch: a sequence of [base, teqc]
    pc,           \* where the control thread is
    submit_ix,    \* entries of src_files the for loop has taken
    futures,      \* the futures by creation: [file, state, runs]
    todo_map,     \* future -> source file
    nthreads,     \* worker threads of the executor
    idle_sem,     \* the executor's idle semaphore
    finished0,    \* as_completed: futures found finished, not yet yielded
    waiter,       \* as_completed: futures finished since, oldest first
    drained,      \* the futures the for loop has taken, in order
    cur,          \* the loop body: [future, src_file, res, record]
    failed_files, \* the list parallel_teqc returns
    stdout,       \* what has been printed
    exc,          \* the exception leaving parallel_teqc, or "none"
    first_done,   \* history: the future whose task finished first, or 0
    late,         \* history: the futures finished since as_completed
                  \* began, oldest first
    report,       \* the parser: its argument
    edits,        \* the parser: edits made to the argument
    parsed        \* the parser: what parse_report(report) gave

batch_vars ==
    <<src_files, pc, submit_ix, futures, todo_map, nthreads, idle_sem,
      finished0, waiter, drained, cur, failed_files, stdout, exc,
      first_done, late>>

parser_vars == <<report, edits, parsed>>

vars == <<batch_vars, parser_vars>>

NoCur == [future |-> 0]

NotParsed == [exc |-> "not called"]

\* the source files of a batch: file j of the tags ts
Files(ts) == [j \in 1..Len(ts) |-> [base |-> j, teqc |-> ts[j]]]

\* all batches of at most n files
Batches(n) == UNION {{Files(ts) : ts \in [1..k -> RunTags]} : k \in 0..n}

\* the batches of n files that teqc treats alike
UniformBatches(n) == {Files([j \in 1..n |-> t]) : t \in RunTags}

BatchStart(files) ==
    /\ src_files = files
    /\ pc = "submit"
    /\ submit_ix = 0
    /\ futures = <<>>
    /\ todo_map = <<>>
    /\ nthreads = 0
    /\ idle_sem = 0
    /\ finished0 = {}
    /\ waiter = <<>>
    /\ drained = <<>>
    /\ cur = NoCur
    /\ failed_files = <<>>
    /\ stdout = <<>>
    /\ exc = "none"
    /\ first_done = 0
    /\ late = <<>>

ParserIdle ==
    /\ report = <<>>
    /\ edits = 0
    /\ parsed = NotParsed

(***************************************************************************)
(* The thread pool (concurrent.futures.ThreadPoolExecutor).                *)
(***************************************************************************)
InState(s) == {k \in 1..Len(futures) : futures[k].state = s}

\* the subprocess invocations in flight
InFlight == InState("running")

\* executor.submit: a new future on the work queue; a thread is started
\* unless a worker is idle or max_workers threads exist
AdjustThreadCount ==
    IF idle_sem > 0
    THEN idle_sem' = idle_sem - 1 /\ nthreads' = nthreads
    ELSE /\ idle_sem' = idle_sem
         /\ nthreads' = IF nthreads < max_workers THEN nthreads + 1 ELSE nthreads

\* a loop that steps over an entry
NextEntrySkipping(ix) == ix + 2

\* the for loop's next entry
NextEntry(ix) == ix + 1

\* line 114: future = executor.submit(quality_check, src_file)
Submit ==
    /\ pc = "submit"
    /\ submit_ix < Len(src_files)
    /\ futures' = Append(futures,
                    [file |-> submit_ix + 1, state |-> "pending", runs |-> 0])
    /\ AdjustThreadCount
    /\ pc' = "assoc"
    /\ UNCHANGED <<src_files, submit_ix, todo_map, finished0, waiter, drained,
                   cur, failed_files, stdout, exc, first_done, late,
                   parser_vars>>

\* an assignment that puts a new dictionary in the place of todo_map
AssociateAnew ==
    /\ pc = "assoc"
    /\ todo_map' = (Len(futures) :> src_files[submit_ix + 1])
    /\ submit_ix' = NextEntry(submit_ix)
    /\ pc' = "submit"
    /\ UNCHANGED <<src_files, futures, nthreads, idle_sem, finished0, waiter,
                   drained, cur, failed_files, stdout, exc, first_done, late,
                   parser_vars>>

\* line 115: todo_map[future] = src_file
Associate ==
    /\ pc = "assoc"
    /\ todo_map' = (Len(futures) :> src_files[submit_ix + 1]) @@ todo_map
    /\ submit_ix' = NextEntry(submit_ix)
    /\ pc' = "submit"
    /\ UNCHANGED <<src_files, futures, nthreads, idle_sem, finished0, waiter,
                   drained, cur, failed_files, stdout, exc, first_done, late,
                   parser_vars>>

\* a worker takes the oldest work item and starts teqc on its file
StartTask(k) ==
    /\ k \in InState("pending")
    /\ \A j \in InState("pending") : k <= j
    /\ Cardinality(InFlight) < nthreads
    /\ futures' = [futures EXCEPT ![k].state = "running", ![k].runs = @ + 1]
    /\ UNCHANGED <<src_files, pc, submit_ix, todo_map, nthreads, idle_sem,
                   finished0, waiter, drained, cur, failed_files, stdout, exc, first_done, late,
                   parser_vars>>

\* as_completed has installed its waiter and still runs
Draining == pc \in {"next", "parse", "print", "append"}

\* teqc exits, quality_check returns, the future is finished and the
\* waiters on it are told; the worker is idle again
FinishTask(k) ==
    /\ k \in InFlight
    /\ futures' = [futures EXCEPT ![k].state = "finished"]
    /\ idle_sem' = idle_sem + 1
    /\ waiter' = IF Draining /\ k \in DOMAIN todo_map
                 THEN Append(waiter, k) ELSE waiter
    /\ first_done' = IF first_done = 0 THEN k ELSE first_done
    /\ late' = IF Draining THEN Append(late, k) ELSE late
    /\ UNCHANGED <<src_files, pc, submit_ix, todo_map, nthreads, finished0,
                   drained, cur, failed_files, stdout, exc, parser_vars>>

\* future.result() of a finished future
Result(k) == quality_check(src_files[futures[k].file])

(***************************************************************************)
(* parallel_teqc, the control thread.                                      *)
(***************************************************************************)
\* lines 116-117: the submissions are over; as_completed(todo_map) notes
\* the futures already finished and waits on the others
AsCompleted ==
    /\ pc = "submit"
    /\ submit_ix >= Len(src_files)
    /\ finished0' = DOMAIN todo_map \cap InState("finished")
    /\ waiter' = <<>>
    /\ failed_files' = <<>>
    /\ pc' = "next"
    /\ UNCHANGED <<src_files, submit_ix, futures, todo_map, nthreads, idle_sem,
                   drained, cur, stdout, exc, first_done, late,
                   parser_vars>>

\* lines 119-122: the loop body up to the test of res
Take(k) ==
    /\ drained' = Append(drained, k)
    /\ cur' = [future |-> k, src_file |-> todo_map[k], res |-> Result(k)]
    /\ pc' = IF Truthy(Result(k)) THEN "parse" ELSE "append"

\* line 118: the next future of as_completed: the ones found finished in
\* the order of a set, then the others as they finish
NextFuture ==
    /\ pc = "next"
    /\ \/ \E k \in finished0 :
            /\ finished0' = finished0 \ {k}
            /\ waiter' = waiter
            /\ Take(k)
       \/ /\ finished0 = {}
          /\ waiter # <<>>
          /\ finished0' = finished0
          /\ waiter' = Tail(waiter)
          /\ Take(Head(waiter))
    /\ UNCHANGED <<src_files, submit_ix, futures, todo_map, nthreads, idle_sem,
                   failed_files, stdout, exc, first_done, late,
                   parser_vars>>

\* line 118: as_completed is exhausted
LoopEnd ==
    /\ pc = "next"
    /\ Len(drained) = Cardinality(DOMAIN todo_map)
    /\ cur' = NoCur
    /\ pc' = "exit"
    /\ UNCHANGED <<src_files, submit_ix, futures, todo_map, nthreads, idle_sem,
                   finished0, waiter, drained, failed_files, stdout, exc, first_done, late,
                   parser_vars>>

\* line 123: record = (src_file, *parse_report(res)); an exception of
\* parse_report is not caught and leaves the loop
Parse ==
    /\ pc = "parse"
    /\ LET p == parse_report(cur.res.items)
       IN  IF p.exc = "none"
           THEN /\ cur' = [future |-> cur.future, src_file |-> cur.src_file,
                           res |-> cur.res, record |-> <<cur.src_file, p>>]
                /\ pc' = "print"
                /\ exc' = exc
           ELSE /\ cur' = NoCur
                /\ pc' = "exit"
                /\ exc' = p.exc
    /\ UNCHANGED <<src_files, submit_ix, futures, todo_map, nthreads, idle_sem,
                   finished0, waiter, drained, failed_files, stdout,
                   first_done, late, parser_vars>>

\* a record kept back instead of printed
EmitLater(out, record) == out

\* what print_marks(record, out_fmt) writes
Emit(out, record) == Append(out, [what |-> "record", record |-> record])

\* a printed record whose file goes on to the else branch
PrintMarksAndAppend ==
    /\ pc = "print"
    /\ stdout' = Emit(stdout, cur.record)
    /\ pc' = "append"
    /\ UNCHANGED <<src_files, submit_ix, futures, todo_map, nthreads, idle_sem,
                   finished0, waiter, drained, cur, failed_files, exc, first_done,
                   late, parser_vars>>

\* line 124: print_marks(record, out_fmt)
PrintMarks ==
    /\ pc = "print"
    /\ stdout' = Emit(stdout, cur.record)
    /\ pc' = "next"
    /\ UNCHANGED <<src_files, submit_ix, futures, todo_map, nthreads, idle_sem,
                   finished0, waiter, drained, cur, failed_files, exc, first_done, late,
                   parser_vars>>

\* a failed file put at the front of the list
AppendFailedFront ==
    /\ pc = "append"
    /\ failed_files' = <<basename(cur.src_file)>> \o failed_files
    /\ pc' = "next"
    /\ UNCHANGED <<src_files, submit_ix, futures, todo_map, nthreads, idle_sem,
                   finished0, waiter, drained, cur, stdout, exc, first_done,
                   late, parser_vars>>

\* line 126: failed_files.append(os.path.basename(src_file))
AppendFailed ==
    /\ pc = "append"
    /\ failed_files' = Append(failed_files, basename(cur.src_file))
    /\ pc' = "next"
    /\ UNCHANGED <<src_files, submit_ix, futures, todo_map, nthreads, idle_sem,
                   finished0, waiter, drained, cur, stdout, exc, first_done, late,
                   parser_vars>>

\* the end of the with block: executor.shutdown(wait=True) returns when
\* the workers have run every work item; then line 128 returns, or the
\* exception goes on to main
ExitWith ==
    /\ pc = "exit"
    /\ InState("pending") = {} /\ InFlight = {}
    /\ pc' = IF exc = "none" THEN "returned" ELSE "raised"
    /\ UNCHANGED <<src_files, submit_ix, futures, todo_map, nthreads, idle_sem,
                   finished0, waiter, drained, cur, failed_files, stdout, exc, first_done, late,
                   parser_vars>>

\* main, lines 168-172: the failed files are printed if there are any
MainPrint ==
    /\ pc = "returned"
    /\ stdout' = IF failed_files # <<>>
                 THEN Append(stdout, [what |-> "failed", files |-> failed_files])
                 ELSE stdout
    /\ pc' = "done"
    /\ UNCHANGED <<src_files, submit_ix, futures, todo_map, nthreads, idle_sem,
                   finished0, waiter, drained, cur, failed_files, exc, first_done, late,
                   parser_vars>>

Worker == \E k \in 1..Len(futures) : StartTask(k) \/ FinishTask(k)

Control ==
    \/ Submit \/ Associate \/ AsCompleted \/ NextFuture \/ LoopEnd
    \/ Parse \/ PrintMarks \/ AppendFailed \/ ExitWith \/ MainPrint

Init == (\E files \in Batches(MaxFiles) : BatchStart(files)) /\ ParserIdle

Next == Control \/ Worker

Spec == Init /\ [][Next]_vars

(***************************************************************************)
(* The executor while the batch is submitted: the for loop of lines 113 to *)
(* 115 and the workers, for batches longer than the pool is wide.  The     *)
(* steps of the control thread after the last submission neither change    *)
(* the futures and the threads nor enable or disable a worker's step, so   *)
(* the workers go through the same states here as in Spec.                 *)
(***************************************************************************)
InitPool ==
    (\E files \in UniformBatches(PoolFiles) : BatchStart(files)) /\ ParserIdle

NextPool == Submit \/ Associate \/ Worker

SpecPool == InitPool /\ [][NextPool]_vars

(***************************************************************************)
(* The parser on its own: a report, the doctest's or the empty one, is     *)
(* edited at most MaxEdits times and handed to parse_report.               *)
(***************************************************************************)
BaseReports == {DoctestReport, <<>>}

CanEdit == parsed = NotParsed /\ edits < MaxEdits

Edited(r) ==
    /\ report' = r
    /\ edits' = edits + 1
    /\ UNCHANGED <<parsed, batch_vars>>

\* line i is cut to its first n characters
TruncateLine(i, n) ==
    /\ CanEdit
    /\ n < Len(report[i])
    /\ Edited([report EXCEPT ![i] = SubSeq(@, 1, n)])

\* line i is left out
DeleteLine(i) ==
    /\ CanEdit
    /\ Edited(SubSeq(report, 1, i - 1) \o SubSeq(report, i + 1, Len(report)))

\* lines i and i + 1 change places
SwapLines(i) ==
    /\ CanEdit
    /\ i < Len(report)
    /\ report[i] # report[i + 1]
    /\ Edited([report EXCEPT ![i] = report[i + 1], ![i + 1] = report[i]])

\* line i becomes another line
ReplaceLine(i, l) ==
    /\ CanEdit
    /\ report[i] # l
    /\ Edited([report EXCEPT ![i] = l])

\* one more line at the end
AppendLine(l) ==
    /\ CanEdit
    /\ Edited(Append(report, l))

Edit ==
    \/ \E i \in 1..Len(report) :
         \/ \E n \in CutLengths : TruncateLine(i, n)
         \/ DeleteLine(i)
         \/ SwapLines(i)
         \/ \E l \in LineCatalog : ReplaceLine(i, l)
    \/ \E l \in LineCatalog : AppendLine(l)

\* parse_report(report) is called
CallParse ==
    /\ parsed = NotParsed
    /\ parsed' = parse_report(report)
    /\ UNCHANGED <<report, edits, batch_vars>>

InitParse ==
    /\ BatchStart(<<>>)
    /\ report \in BaseReports
    /\ edits = 0
    /\ parsed = NotParsed

NextParse == Edit \/ CallParse

SpecParse == InitParse /\ [][NextParse]_vars

(***************************************************************************)
(* What the claims speak of.                                               *)
(***************************************************************************)
Range(seq) == {seq[n] : n \in 1..Len(seq)}

\* the control thread has left main, by return or by exception
BatchOver == pc \in {"done", "raised"}

\* the report of a file does not parse
ReportFails(src_file) ==
    LET run == getstatusoutput(src_file)
    IN  parse_report(split(run.output, "\n")).exc # "none"

\* a file that fails: teqc exits non-zero, or its report does not parse
FileFails(src_file) ==
    getstatusoutput(src_file).status # 0 \/ ReportFails(src_file)

FailingEntries == {j \in 1..Len(src_files) : FileFails(src_files[j])}

\* the records printed so far, as the base names of their files
RecordsPrinted ==
    LET recs == SelectSeq(stdout, LAMBDA e : e.what = "record")
    IN  [n \in 1..Len(recs) |-> basename(recs[n].record[1])]

\* the lines of failed files printed so far
FailedPrints == SelectSeq(stdout, LAMBDA e : e.what = "failed")

\* the loop body for future k is over
Handled(k) ==
    /\ k \in Range(drained)
    /\ ~(cur.future = k /\ pc \in {"parse", "print", "append"})

\* future k gave a report that parses
GivesRecord(k) ==
    /\ Truthy(Result(k))
    /\ parse_report(Result(k).items).exc = "none"

\* C1: a batch of N files of which K fail ends with K failed files
\* returned and N - K records printed, whatever the interleaving
C1_Counts ==
    BatchOver =>
        /\ pc = "done"
        /\ Len(failed_files) = Cardinality(FailingEntries)
        /\ Len(RecordsPrinted) = Len(src_files) - Cardinality(FailingEntries)

\* C2: a report that does not parse puts its file on the failed list, no
\* exception leaves parallel_teqc, and the loop goes on to the last future
C2_ParseErrorIsFailedFile ==
    /\ exc = "none"
    /\ \A k \in 1..Len(futures) :
         (Handled(k) /\ Truthy(Result(k)) /\ ~GivesRecord(k))
            => basename(todo_map[k]) \in Range(failed_files)
    /\ pc \in {"exit", "returned", "done", "raised"}
         => Len(drained) = Len(src_files)

\* C3: never more than max(6, CPU count) invocations of teqc are in flight
C3_InFlightBounded ==
    Cardinality(InFlight) <= (IF cpu_count > 6 THEN cpu_count ELSE 6)

\* C3 witness: the pool is full while a work item waits in the queue
C3_PoolFull ==
    /\ Cardinality(InFlight) = (IF cpu_count > 6 THEN cpu_count ELSE 6)
    /\ InState("pending") # {}

\* the shell found no teqc to run for this file
ToolUnavailable(src_file) == getstatusoutput(src_file).status = 127

\* C4: a teqc that cannot be run is a fatal condition: its file is not put
\* on the failed list, and the batch is aborted, not returned
C4_ToolUnavailableIsFatal ==
    \A k \in 1..Len(futures) :
        (Handled(k) /\ ToolUnavailable(todo_map[k]))
            => /\ basename(todo_map[k]) \notin Range(failed_files)
               /\ exc # "none"
               /\ pc \notin {"returned", "done"}

\* C5: quality_check gives None for every non-zero status, negative ones
\* too, and the output's lines for status 0 only
C5_NoneIffNonZero ==
    \A k \in InState("finished") :
        LET run == getstatusoutput(src_files[futures[k].file])
        IN  IF run.status # 0
            THEN Result(k).type = "None"
            ELSE /\ Result(k).type = "list"
                 /\ Result(k).items = split(run.output, "\n")

Called == parsed.exc # "not called"

\* the fields whose locator the scan found
Found(rep) == DOMAIN Scan(rep).at

\* C6: a report in which the scan misses one of the five locators makes
\* parse_report raise; no tuple is returned
C6_MissingLocatorRaises ==
    (Called /\ Found(report) # FieldNames) => parsed.exc # "none"

\* C6 witness: exactly one locator was missed in a report of several lines
\* and parse_report raised KeyError
C6_OneLocatorMissed ==
    /\ Called
    /\ Len(report) >= 5
    /\ Cardinality(Found(report)) = 4
    /\ parsed.exc = "KeyError"

\* the slip count of the last line reads as zero
SlipCountZero(rep) ==
    /\ rep # <<>>
    /\ LET olps == float(SliceFrom(rep[Len(rep)], 75))
       IN  olps.exc = "none" /\ olps.num = 0

\* C7: a last line whose slip count is 0 makes parse_report raise; no tuple
\* with an infinite or any other cycle slip rate is returned
C7_ZeroSlipsRaise ==
    (Called /\ SlipCountZero(report)) => parsed.exc # "none"

\* C7 witness: all else in the report is good, the slip count is 0 and the
\* division raised
C7_DivisionRaised ==
    /\ Called
    /\ SlipCountZero(report)
    /\ Found(report) = FieldNames
    /\ parsed.exc = "ZeroDivisionError"

\* a column range is read from a line that ends before the range does
ShortRead(rep) ==
    \/ rep = <<>>
    \/ \E j \in 1..Len(QUALITYINFO) :
         LET item == QUALITYINFO[j]
         IN  /\ item.name \in Found(rep)
             /\ Len(rep[Scan(rep).at[item.name] + 1]) < item.pos[2]
    \/ Len(rep[Len(rep)]) < 73

\* C8: a field line or a last line shorter than its column range, and the
\* empty report, make parse_report raise
C8_ShortLineRaises ==
    (Called /\ ShortRead(report)) => parsed.exc # "none"

\* the futures made for entry j of src_files
Submissions(j) == {k \in 1..Len(futures) : futures[k].file = j}

\* C9: every entry of src_files is submitted once, none twice and none is
\* left out, and teqc runs at most once for a future
C9_OneTaskPerEntry ==
    /\ \A j \in 1..Len(src_files) :
         /\ Cardinality(Submissions(j)) <= 1
         /\ (j <= submit_ix \/ pc \notin {"submit", "assoc"})
              => Cardinality(Submissions(j)) = 1
    /\ \A k \in 1..Len(futures) :
         /\ futures[k].file \in 1..Len(src_files)
         /\ futures[k].runs <= 1
         /\ futures[k].state # "pending" => futures[k].runs = 1

\* C9 witness: a batch of two files is over, one of them failed, and each
\* was submitted and run once
C9_BatchOfTwoOver ==
    /\ pc = "done"
    /\ Len(src_files) = 2
    /\ Len(failed_files) = 1
    /\ \A j \in 1..2 : Cardinality(Submissions(j)) = 1
    /\ \A k \in 1..Len(futures) : futures[k].runs = 1

\* the base names of the drained futures that gave a record and whose loop
\* body is over, in the order they were drained
RecordsDue ==
    LET due == SelectSeq(drained, LAMBDA k : GivesRecord(k) /\ Handled(k))
    IN  [n \in 1..Len(due) |-> basename(todo_map[due[n]])]

\* each record is printed in the loop body that drained its future:
\* before the next future is taken, every record due is on stdout
RecordsAtOnce == RecordsPrinted = RecordsDue

\* the failed files are printed only by main after the loop has drained
\* every future, after every record, and not twice
FailedPrintedLast ==
    /\ Len(FailedPrints) <= 1
    /\ FailedPrints # <<>> =>
         /\ pc = "done"
         /\ Len(drained) = Len(src_files)
         /\ stdout[Len(stdout)] = [what |-> "failed", files |-> failed_files]
         /\ Len(RecordsPrinted) = Len(stdout) - 1

\* C10, as claimed: records are printed as their futures are drained, and
\* when a batch of at least one file has returned the failed files have
\* been printed once, after the last future and the last record
C10_FailedPrintedOnce ==
    /\ RecordsAtOnce
    /\ FailedPrintedLast
    /\ (pc = "done" /\ Len(src_files) >= 1) => Len(FailedPrints) = 1

\* C10, amended: records are printed as their futures are drained; the
\* failed files are printed at most once, after the last future and the
\* last record, and when the batch has returned they have been printed
\* exactly if there are any
C10_FailedPrintedIfAny ==
    /\ RecordsAtOnce
    /\ FailedPrintedLast
    /\ pc = "done" => (Len(FailedPrints) = 1 <=> failed_files # <<>>)

\* C10 witness: a batch has returned with one record printed by the loop
\* and, after it, the failed files printed by main
C10_RecordThenFailed ==
    /\ pc = "done"
    /\ Len(stdout) = 2
    /\ stdout[1].what = "record"
    /\ stdout[2].what = "failed"

\* the base names of the drained futures that gave no report and whose
\* loop body is over, in the order they were drained
FailedDue ==
    LET due == SelectSeq(drained, LAMBDA k : ~Truthy(Result(k)) /\ Handled(k))
    IN  [n \in 1..Len(due) |-> basename(todo_map[due[n]])]

\* the failed files are listed in the order their futures were drained
FailedInDrainOrder == failed_files = FailedDue

\* the drained futures that finished after as_completed began
LateDrained == SelectSeq(drained, LAMBDA k : k \in Range(late))

\* the futures that finish after as_completed began are drained in the
\* order they finish, and after the futures found finished
LateInCompletionOrder ==
    /\ Len(LateDrained) <= Len(late)
    /\ \A n \in 1..Len(LateDrained) : LateDrained[n] = late[n]
    /\ \A p, q \in 1..Len(drained) :
         (p < q /\ drained[p] \in Range(late)) => drained[q] \in Range(late)
    /\ (drained # <<>> /\ late # <<>> /\ late[1] = first_done)
         => drained[1] = first_done

\* C11, as claimed: the futures are drained in the order their tasks
\* finish, so the first to finish is the first drained, and the failed
\* files are listed in that order
C11_CompletionOrder ==
    /\ FailedInDrainOrder
    /\ drained # <<>> => drained[1] = first_done

\* C11, amended: the futures that finish after as_completed began are
\* drained in the order they finish, after those found finished, which
\* come in any order; the failed files are listed in the order of draining
C11_DrainOrder ==
    /\ FailedInDrainOrder
    /\ LateInCompletionOrder

\* C11 witness: the second file submitted finished first, both after
\* as_completed began, both failed, and the list has them in that order
C11_SecondFileFirst ==
    /\ late = <<2, 1>>
    /\ drained = <<2, 1>>
    /\ failed_files = <<2, 1>>

\* C12: parse_report is called for a file only when its teqc has exited,
\* with the lines of that run's output, and only when teqc succeeded
\* (status 0); a file for which quality_check gave None is never parsed
C12_ParseAfterSuccess ==
    pc = "parse" =>
        LET k   == cur.future
            run == getstatusoutput(cur.src_file)
        IN  /\ futures[k].state = "finished"
            /\ futures[k].runs = 1
            /\ cur.src_file = src_files[futures[k].file]
            /\ cur.res.type = "list"
            /\ cur.res.items = split(run.output, "\n")
            /\ run.status = 0

\* the positions in QUALITYINFO of the fields the scan of rep found
FoundIx(rep) ==
    {j \in 1..Len(QUALITYINFO) : QUALITYINFO[j].name \in Found(rep)}

\* the line number (0-based) that gave field j of QUALITYINFO
At(rep, j) == Scan(rep).at[QUALITYINFO[j].name]

\* the line number the search for field j starts at: the line of the
\* last field found before j, or 0
CursorBefore(rep, j) ==
    LET before == {i \in FoundIx(rep) : i < j}
    IN  IF before = {} THEN 0
        ELSE At(rep, CHOOSE i \in before : \A h \in before : h <= i)

\* C13, as claimed: the fields are matched in the order of QUALITYINFO and
\* the line number of the match strictly increases from one field found to
\* the next, so that no line gives two fields
C13_CursorStrictlyIncreases ==
    Called =>
        \A i, j \in FoundIx(report) : i < j => At(report, i) < At(report, j)

\* C13, amended: the search for a field starts at the line that gave the
\* previous field, that line included; a field is given by the first line
\* from there on that contains its flag, and is not found when there is
\* none; so the line number of the match never decreases from one field to
\* the next, and a line that contains two flags may give two fields
C13_CursorNeverDecreases ==
    Called =>
        /\ \A i, j \in FoundIx(report) :
              i < j => At(report, i) <= At(report, j)
        /\ \A j \in FoundIx(report) :
              LET item == QUALITYINFO[j]
                  line == report[At(report, j) + 1]
              IN  /\ At(report, j) \in CursorBefore(report, j)..(Len(report) - 1)
                  /\ Contains(item.flag, line)
                  /\ \A n \in CursorBefore(report, j)..(At(report, j) - 1) :
                        ~Contains(item.flag, report[n + 1])
                  /\ Marks(report)[item.name]
                        = strip(SubSeq(line, item.pos[1] + 1,
                                       Min(item.pos[2], Len(line))))
        /\ \A j \in (1..Len(QUALITYINFO)) \ FoundIx(report) :
              \A n \in CursorBefore(report, j)..(Len(report) - 1) :
                  ~Contains(QUALITYINFO[j].flag, report[n + 1])

\* C13 witness: a report whose fourth line holds the flags of SN1 and of
\* SN2 was parsed, and that line gave both fields
C13_OneLineTwoFields ==
    /\ Called
    /\ Len(report) = Len(DoctestReport)
    /\ report[4] = line_SN1_SN2
    /\ {"SN1", "SN2"} \subseteq Found(report)
    /\ Scan(report).at["SN1"] = 3
    /\ Scan(report).at["SN2"] = 3
    /\ parsed.exc = "none"
    /\ parsed.sn2 = parsed.sn1

\* the text of s before its first comma, all of s when it has none
BeforeComma(s) ==
    LET at == {n \in 1..Len(s) : s[n] = ","}
    IN  IF at = {} THEN s
        ELSE SubSeq(s, 1, (CHOOSE n \in at : \A h \in at : n <= h) - 1)

\* the float f is a number other than zero
NonZeroNumber(f) == f.exc = "none" /\ f.num # 0

\* the numbers (1-based) of the lines of rep that contain flag
LinesWith(rep, flag) == {n \in 1..Len(rep) : Contains(flag, rep[n])}

\* each flag is in one line of rep only, and these lines come in the
\* order of QUALITYINFO
FlagsInOrder(rep) ==
    /\ \A j \in 1..Len(QUALITYINFO) :
          Cardinality(LinesWith(rep, QUALITYINFO[j].flag)) = 1
    /\ \A i, j \in 1..Len(QUALITYINFO) :
          i < j => \A m \in LinesWith(rep, QUALITYINFO[i].flag) :
                     \A n \in LinesWith(rep, QUALITYINFO[j].flag) : m < n

\* the field called name of a report whose flags are in order: the
\* columns item.pos of the line that has the flag, stripped
Field(rep, name) ==
    LET item == QUALITYINFO[CHOOSE j \in 1..Len(QUALITYINFO) :
                               QUALITYINFO[j].name = name]
        line == rep[CHOOSE n \in LinesWith(rep, item.flag) : TRUE]
    IN  strip(SubSeq(line, item.pos[1] + 1, Min(item.pos[2], Len(line))))

\* a report that has the five fields in order, numbers in SN1 and SN2, a
\* date at the head of the start field, and a last line with numbers in
\* columns [63,67) and [69,73) and a slip count other than zero from
\* column 75
WellFormed(rep) ==
    /\ FlagsInOrder(rep)
    /\ float(Field(rep, "SN1")).exc = "none"
    /\ float(Field(rep, "SN2")).exc = "none"
    /\ Len(Field(rep, "start")) >= 11
    /\ strptime(SubSeq(Field(rep, "start"), 1, 11)).exc = "none"
    /\ Len(rep[Len(rep)]) > 75
    /\ float(SubSeq(rep[Len(rep)], 64, 67)).exc = "none"
    /\ float(SubSeq(rep[Len(rep)], 70, 73)).exc = "none"
    /\ NonZeroNumber(float(SubSeq(rep[Len(rep)], 76, Len(rep[Len(rep)]))))

\* C14: for a well-formed report parse_report returns the tuple in which
\* start is the start field without its first 11 characters, stripped; end
\* is the end field as captured; length is the length field up to its
\* first comma; SN1 and SN2 are the numbers of their fields; MP1 and MP2
\* are the numbers in columns [63,67) and [69,73) of the last line; and
\* CSR is 1000 divided by the number from column 75 to the end of it
C14_TupleOfWellFormed ==
    (Called /\ WellFormed(report)) =>
        LET last  == report[Len(report)]
            olps  == float(SubSeq(last, 76, Len(last)))
        IN  /\ parsed.exc = "none"
            /\ parsed.start
                 = strip(SubSeq(Field(report, "start"), 12,
                                Len(Field(report, "start"))))
            /\ parsed.end = Field(report, "end")
            /\ parsed.length = BeforeComma(Field(report, "length"))
            /\ parsed.sn1 = float(Field(report, "SN1"))
            /\ parsed.sn2 = float(Field(report, "SN2"))
            /\ parsed.mp1 = float(SubSeq(last, 64, 67))
            /\ parsed.mp2 = float(SubSeq(last, 70, 73))
            /\ parsed.csr.exc = "none"
            /\ parsed.csr.num * olps.num = 1000 * olps.den * parsed.csr.den

\* C14 witness: the doctest's report was parsed and gave the doctest's
\* start, end, length, multipath values and 1000/3972
C14_DoctestTuple ==
    /\ Called
    /\ report = DoctestReport
    /\ WellFormed(report)
    /\ parsed.exc = "none"
    /\ parsed.start = <<"0", "0", ":", "0", "0", ":", "0", "0", ".", "0", "0", "0">>
    /\ parsed.end = <<"2", "3", ":", "5", "9", ":", "3", "0", ".", "0", "0", "0">>
    /\ parsed.length = <<"2", "3", ".", "9", "9", " ", "h", "o", "u", "r", "(", "s", ")">>
    /\ parsed.mp1 = [exc |-> "none", num |-> 43, den |-> 100]
    /\ parsed.mp2 = [exc |-> "none", num |-> 21, den |-> 50]
    /\ parsed.csr = [exc |-> "none", num |-> 250, den |-> 993]

\* the abbreviated month names, as a report writes them
MonthAbbr ==
    << <<"J", "a", "n">>, <<"F", "e", "b">>, <<"M", "a", "r">>,
       <<"A", "p", "r">>, <<"M", "a", "y">>, <<"J", "u", "n">>,
       <<"J", "u", "l">>, <<"A", "u", "g">>, <<"S", "e", "p">>,
       <<"O", "c", "t">>, <<"N", "o", "v">>, <<"D", "e", "c">> >>

\* the first 11 characters of the start field of rep
DateText(rep) == SubSeq(Marks(rep)["start"], 1, 11)

\* d is 'YYYY Mon DD' and names a day of the calendar
ValidDateText(d) ==
    /\ Len(d) = 11
    /\ AllDigits(SubSeq(d, 1, 4)) /\ DigitsVal(SubSeq(d, 1, 4)) >= 1
    /\ d[5] = " " /\ d[9] = " "
    /\ \E m \in 1..12 :
          /\ MonthAbbr[m] = SubSeq(d, 6, 8)
          /\ AllDigits(SubSeq(d, 10, 11))
          /\ DigitsVal(SubSeq(d, 10, 11))
                \in 1..DaysInMonth(DigitsVal(SubSeq(d, 1, 4)), m)

\* 'YYYY-MM-DD' for the date text d: the same year and day digits, and the
\* number of the month in two digits
IsoOf(d) ==
    LET m == CHOOSE i \in 1..12 : MonthAbbr[i] = SubSeq(d, 6, 8)
    IN  SubSeq(d, 1, 4) \o <<"-">>
          \o <<DigitChars[(m \div 10) + 1], DigitChars[(m % 10) + 1]>>
          \o <<"-">> \o SubSeq(d, 10, 11)

\* C15: when the start field begins with a valid date 'YYYY Mon DD', the
\* date of the tuple parse_report returns is 'YYYY-MM-DD' for the same
\* year, month and day
C15_DateIsIso ==
    (/\ Called /\ parsed.exc = "none"
     /\ "start" \in Found(report)
     /\ ValidDateText(DateText(report)))
        => parsed.date = IsoOf(DateText(report))

\* the submission loop is running
Submitting == pc \in {"submit", "assoc"}

\* the future of the loop body under way is in todo_map, and the body has
\* the path todo_map holds for it
LookupsFound ==
    /\ \A n \in 1..Len(drained) : drained[n] \in DOMAIN todo_map
    /\ cur # NoCur =>
          /\ cur.future \in DOMAIN todo_map
          /\ cur.src_file = todo_map[cur.future]

\* C16, as claimed: a future is in todo_map before a worker can finish its
\* task, so every finished future is in todo_map, and no step of the
\* draining loop looks up a future that is not there
C16_AssociatedBeforeCompletion ==
    /\ \A k \in 1..Len(futures) :
          futures[k].state = "finished" => k \in DOMAIN todo_map
    /\ LookupsFound

\* C16, amended: todo_map holds for each future the path it was submitted
\* with; during the submission loop it has the futures of the entries
\* already associated and nothing is drained; from the end of that loop
\* on it has every future and does not change, so no step of the draining
\* loop looks up a future that is not there
C16_AssociatedBeforeDraining ==
    /\ \A k \in DOMAIN todo_map :
          /\ k \in 1..Len(futures)
          /\ todo_map[k] = src_files[futures[k].file]
    /\ Submitting =>
          /\ drained = <<>> /\ cur = NoCur
          /\ DOMAIN todo_map = 1..submit_ix
          /\ Len(futures) = submit_ix + (IF pc = "assoc" THEN 1 ELSE 0)
    /\ ~Submitting =>
          /\ Len(futures) = Len(src_files)
          /\ DOMAIN todo_map = 1..Len(src_files)
    /\ LookupsFound

\* C16 witness: the second of two tasks is finished and line 115 has not
\* yet put its future in todo_map
C16_FinishedUnassociated ==
    /\ pc = "assoc"
    /\ Len(futures) = 2
    /\ futures[2].state = "finished"
    /\ DOMAIN todo_map = {1}

\* the reference parser: the number (0-based) of the first line of rep,
\* counted from the top, that contains flag; -1 when no line does
TopScan(rep, flag) ==
    IF LinesWith(rep, flag) = {} THEN -1
    ELSE (CHOOSE n \in LinesWith(rep, flag) :
              \A h \in LinesWith(rep, flag) : n <= h) - 1

\* the line number parse_report's scan took field j from; -1 when the
\* scan did not find the field
ResumeScan(rep, j) == IF j \in FoundIx(rep) THEN At(rep, j) ELSE -1

\* the scan of parse_report and the reference parser take every field of
\* rep from the same line, or both do not find it
SameAsTopScan(rep) ==
    \A j \in 1..Len(QUALITYINFO) :
        ResumeScan(rep, j) = TopScan(rep, QUALITYINFO[j].flag)

\* the first lines that contain the flags come in the order of QUALITYINFO
FirstsInOrder(rep) ==
    \A i, j \in 1..Len(QUALITYINFO) :
        (/\ i < j
         /\ TopScan(rep, QUALITYINFO[i].flag) # -1
         /\ TopScan(rep, QUALITYINFO[j].flag) # -1)
            => TopScan(rep, QUALITYINFO[i].flag)
                 <= TopScan(rep, QUALITYINFO[j].flag)

Count(q, x) == Cardinality({n \in 1..Len(q) : q[n] = x})

\* C18: at any moment each file of the batch has given at most one
\* outcome: it is not both printed as a record and on the failed list, and
\* it has neither two records nor two entries of the failed list; a file
\* with a record gave a report that parses, a file on the failed list gave
\* no report, and both have been drained
C18_AtMostOneOutcome ==
    /\ \A j \in 1..Len(src_files) :
          Count(RecordsPrinted, basename(src_files[j]))
            + Count(failed_files, basename(src_files[j])) <= 1
    /\ \A k \in 1..Len(futures) :
          LET b == basename(src_files[futures[k].file])
          IN  /\ Count(RecordsPrinted, b) = 1
                    => (k \in Range(drained) /\ GivesRecord(k))
              /\ Count(failed_files, b) = 1
                    => (k \in Range(drained) /\ ~Truthy(Result(k)))

\* C18 witness: a batch of two files has returned with a record of one
\* file and the other file on the failed list
C18_OneOfEach ==
    /\ pc = "done"
    /\ Len(src_files) = 2
    /\ Len(RecordsPrinted) = 1
    /\ Len(failed_files) = 1
    /\ RecordsPrinted[1] # failed_files[1]

====
